---- MODULE Spec2Model ----
(***************************************************************************)
(* State-machine model of openssl/src/ssl/bio.rs: the adapter that backs   *)
(* an OpenSSL BIO with a Rust stream.  One channel object (BIO), one       *)
(* heap-allocated StreamState, one heap-allocated active BIO_METHOD and    *)
(* the static DESTROY_METHOD.                                              *)
(***************************************************************************)
EXTENDS Integers, Sequences, FiniteSets, TLC

\* ---------------------------------------------------------------- bounds
\* Number of callback invocations (bwrite, bread, bputs, ctrl) in a run.
MaxOps == 2
\* Longest payload handed to bwrite / bputs and longest read request.
MaxLen == 1
\* ------------------------------------------------------------- constants
NULL == 0
StateAddr == 1
BIO_TYPE_NONE == 0
BIO_CTRL_FLUSH == 11
OtherCmd == 12
NAME == <<114, 117, 115, 116, 0>>
None == "None"
MethodAddr == "method"
DestroyMethodAddr == "DESTROY_METHOD"

\* io::ErrorKind values a stream may report.
ErrorKinds == {"WouldBlock", "NotConnected", "BrokenPipe"}

\* Option<io::Error>::None
NoError == [kind |-> "none", at |-> 0]

\* The flag bits of the channel object that BIO_clear_retry_flags clears.
RetryFlags == {"read", "write", "io_special", "should_retry"}

\* ------------------------------------------------------ method descriptors
\* Variant of DESTROY_METHOD whose ctrl slot was left populated.
DESTROY_METHOD_with_ctrl ==
  [type_ |-> BIO_TYPE_NONE, name |-> NAME,
   bwrite |-> None, bread |-> None, bputs |-> None, bgets |-> None,
   ctrl |-> "ctrl", create |-> None, destroy |-> "destroy",
   callback_ctrl |-> None]

DESTROY_METHOD ==
  [type_ |-> BIO_TYPE_NONE, name |-> NAME,
   bwrite |-> None, bread |-> None, bputs |-> None, bgets |-> None,
   ctrl |-> None, create |-> None, destroy |-> "destroy",
   callback_ctrl |-> None]

\* Variant of ActiveMethod whose destroy slot is populated as well.
ActiveMethod_with_destroy ==
  [type_ |-> BIO_TYPE_NONE, name |-> NAME,
   bwrite |-> "bwrite", bread |-> "bread", bputs |-> "bputs", bgets |-> None,
   ctrl |-> "ctrl", create |-> "create", destroy |-> "destroy",
   callback_ctrl |-> None]

ActiveMethod ==
  [type_ |-> BIO_TYPE_NONE, name |-> NAME,
   bwrite |-> "bwrite", bread |-> "bread", bputs |-> "bputs", bgets |-> None,
   ctrl |-> "ctrl", create |-> "create", destroy |-> None,
   callback_ctrl |-> None]

\* --------------------------------------------------------------- integers
\* The largest c_int (2^31 - 1).
CIntMax == 2147483647

\* Variant of the cast that keeps only the low 16 bits, read as signed.
AsCInt_16bit(x) ==
  LET m == x % 65536 IN IF m >= 32768 THEN m - 65536 ELSE m

\* `x as c_int` for a usize x: the low 32 bits read as a signed integer.
\* Counts up to CIntMax keep their value; above it the value wraps by 2^32.
AsCInt(x) == IF x <= CIntMax THEN x ELSE ((x - CIntMax) - 1) - CIntMax - 1

\* `len as usize` for a c_int len: a non-negative length keeps its value, a
\* negative one becomes a length beyond every buffer.
AsUsize(x) == IF x >= 0 THEN x ELSE CIntMax

\* ----------------------------------------------------------------- stream
\* Results a stream operation may report: Ok(n) or Err(kind).
Ok(n) == [ok |-> TRUE, n |-> n, kind |-> "none"]
Err(k) == [ok |-> FALSE, n |-> 0, kind |-> k]

\* A stream reports a count up to the length requested, or an error; failing
\* operations are exercised on the longest request.
WriteResults(buf) ==
  {Ok(n) : n \in 0..Len(buf)}
    \cup {Err(k) : k \in IF Len(buf) = MaxLen THEN ErrorKinds ELSE {}}
ReadResults(len) ==
  {Ok(n) : n \in 0..len}
    \cup {Err(k) : k \in IF len = MaxLen THEN ErrorKinds ELSE {}}
FlushResults == {Ok(0)} \cup {Err(k) : k \in ErrorKinds}

\* One operation performed on the stream, as the stream observes it.
StreamOp(op, buf, len, res) == [op |-> op, buf |-> buf, len |-> len, res |-> res]

\* The stream after one more operation; its history is its value.
StreamApply(s, op, buf, len, res) ==
  [s EXCEPT !.log = Append(@, StreamOp(op, buf, len, res))]

\* The io::Error an operation on stream s reports for result res.
ErrorOf(s, res) == [kind |-> res.kind, at |-> Len(s.log) + 1]

StreamIds == {1}
Streams == {[id |-> i, log |-> <<>>] : i \in StreamIds}
NoStream == [id |-> 0, log |-> <<>>]

\* ------------------------------------------------------------------ state
VARIABLES
  pc,       \* the owning caller: "start", "attached", "failed", "detached"
  given,    \* the stream value moved into new
  bio,      \* the fields of the channel object (BIO)
  method,   \* the contents of the Box<BIO_METHOD> built by new
  heap,     \* the contents of the Box<StreamState>
  alloc,    \* allocation status of the BIO, the StreamState and the method box
  taken,    \* the stream returned by take_stream
  created,  \* the channel object as the create callback left it
  calls,    \* the callbacks dispatched so far, with arguments and results
  last,     \* the most recent operation and what it returned
  mark,     \* how many callbacks had been dispatched at the last take_error
            \* on the error slot (0 once the slot is gone with its StreamState)
  viol      \* memory-safety violations and failed assertions so far

vars ==
  <<pc, given, bio, method, heap, alloc, taken, created, calls, last, mark, viol>>

NoBio == [ptr |-> NULL, method |-> None, init |-> 0, num |-> 0, flags |-> {}]
NoState == [stream |-> NoStream, error |-> NoError]
NoMethod == [type_ |-> BIO_TYPE_NONE, name |-> <<>>,
             bwrite |-> None, bread |-> None, bputs |-> None, bgets |-> None,
             ctrl |-> None, create |-> None, destroy |-> None,
             callback_ctrl |-> None]

\* The part of the state the functions of bio.rs read and write.
World == [bio |-> bio, heap |-> heap, alloc |-> alloc, viol |-> viol]

\* What an operation reports: the resulting world, the integer it returns,
\* the error it returns (take_error) and the stream it returns or borrows.
Result(w, ret, err, strm) == [w |-> w, ret |-> ret, err |-> err, strm |-> strm]

\* ----------------------------------------------------- foreign library
\* Field contents of a channel object fresh from the foreign allocator.
Garbage == 2
RawBios ==
  [ptr : {NULL, Garbage}, method : {None}, init : {0, 1}, num : {0, 1},
   flags : {{}, {"read", "should_retry"}}]

BIO_clear_retry_flags(b) == [b EXCEPT !.flags = @ \ RetryFlags]
BIO_set_retry_read(b) == [b EXCEPT !.flags = @ \cup {"read", "should_retry"}]
BIO_set_retry_write(b) == [b EXCEPT !.flags = @ \cup {"write", "should_retry"}]

\* ---------------------------------------------------------------- bio.rs
\* Dereferencing (*bio).ptr as a StreamState is defined only while the box
\* it was made from is live.
Deref(w) == w.bio.ptr = StateAddr /\ w.alloc.state = "live"

\* Outside the defined behaviour: the violation is recorded.
Fault(w) ==
  Result([w EXCEPT !.viol = @ \cup {IF w.bio.ptr = NULL THEN "null_deref"
                                      ELSE "use_after_free"}],
         0, NoError, NoStream)

state(w) == w.heap

\* Variant of retriable_error that forgets NotConnected.
retriable_error_wouldblock_only(err) == err.kind \in {"WouldBlock"}

retriable_error(err) == err.kind \in {"WouldBlock", "NotConnected"}

\* Variant of create that leaves the flags field as it found it.
create_keeps_flags(b) ==
  [bio |-> [b EXCEPT !.init = 0, !.num = 0, !.ptr = NULL], ret |-> 1]

create(b) == [bio |-> [b EXCEPT !.init = 0, !.num = 0, !.ptr = NULL, !.flags = {}],
              ret |-> 1]

\* BIO_new: allocate, point the object at the descriptor, run its create slot.
BIO_new(addr, m, raw, ok) ==
  LET b0 == [raw EXCEPT !.method = addr]
      c == IF m.create = None THEN [bio |-> b0, ret |-> 1] ELSE create(b0)
  IN [null |-> ~ok \/ c.ret = 0, bio |-> c.bio]

\* Variant of new_failed in which the StreamState had already been turned
\* into a raw pointer before BIO_new was called, so the early return leaks it.
new_failed_leaks_state ==
  [bio |-> "none", state |-> "live", method |-> "freed"]

\* new, line 56: BIO_new returned null; the early return drops both boxes,
\* the StreamState with the stream inside it and the descriptor.
new_failed == [bio |-> "none", state |-> "dropped", method |-> "freed"]

\* Variant of new_install that does not mark the object initialized.
new_install_forgets_init(b) == [b EXCEPT !.ptr = StateAddr]

\* new, lines 57-58: install the StreamState and mark the object initialized.
new_install(b) == [b EXCEPT !.ptr = StateAddr, !.init = 1]

\* Variant of take_error that reads the slot without emptying it.
take_error_keeps_slot(w) ==
  IF ~Deref(w) THEN Fault(w)
  ELSE Result(w, 0, state(w).error, NoStream)

take_error(w) ==
  IF ~Deref(w) THEN Fault(w)
  ELSE Result([w EXCEPT !.heap.error = NoError], 0, state(w).error, NoStream)

\* Variant of take_stream that leaves the opaque pointer in place.
take_stream_keeps_ptr(w) ==
  IF ~Deref(w)
  THEN Result([w EXCEPT !.viol = @ \cup {IF w.bio.ptr = NULL THEN "null_deref"
                                          ELSE "double_free"}],
              0, NoError, NoStream)
  ELSE Result([w EXCEPT !.alloc.state = "reclaimed",
                        !.heap = NoState,
                        !.bio.method = DestroyMethodAddr,
                        !.bio.init = 0],
              0, NoError, w.heap.stream)

\* Variant of take_stream that leaves the active descriptor in place.
take_stream_keeps_method(w) ==
  IF ~Deref(w)
  THEN Result([w EXCEPT !.viol = @ \cup {IF w.bio.ptr = NULL THEN "null_deref"
                                          ELSE "double_free"}],
              0, NoError, NoStream)
  ELSE Result([w EXCEPT !.alloc.state = "reclaimed",
                        !.heap = NoState,
                        !.bio.ptr = NULL,
                        !.bio.init = 0],
              0, NoError, w.heap.stream)

\* Variant of take_stream that leaves the object marked initialized.
take_stream_keeps_init(w) ==
  IF ~Deref(w)
  THEN Result([w EXCEPT !.viol = @ \cup {IF w.bio.ptr = NULL THEN "null_deref"
                                          ELSE "double_free"}],
              0, NoError, NoStream)
  ELSE Result([w EXCEPT !.alloc.state = "reclaimed",
                        !.heap = NoState,
                        !.bio.ptr = NULL,
                        !.bio.method = DestroyMethodAddr],
              0, NoError, w.heap.stream)

\* Variant of take_stream that hands back an empty stream in place of the wrapped one.
take_stream_loses_stream(w) ==
  IF ~Deref(w)
  THEN Result([w EXCEPT !.viol = @ \cup {IF w.bio.ptr = NULL THEN "null_deref"
                                          ELSE "double_free"}],
              0, NoError, NoStream)
  ELSE Result([w EXCEPT !.alloc.state = "reclaimed",
                        !.heap = NoState,
                        !.bio.ptr = NULL,
                        !.bio.method = DestroyMethodAddr,
                        !.bio.init = 0],
              0, NoError, NoState.stream)

take_stream(w) ==
  IF ~Deref(w)
  THEN Result([w EXCEPT !.viol = @ \cup {IF w.bio.ptr = NULL THEN "null_deref"
                                          ELSE "double_free"}],
              0, NoError, NoStream)
  ELSE Result([w EXCEPT !.alloc.state = "reclaimed",
                        !.heap = NoState,
                        !.bio.ptr = NULL,
                        !.bio.method = DestroyMethodAddr,
                        !.bio.init = 0],
              0, NoError, w.heap.stream)

\* Variant of get_ref that rebuilds the box to reach the stream, so the
\* StreamState is freed when the box goes out of scope.
get_ref_reclaims(w) ==
  IF ~Deref(w) THEN Fault(w)
  ELSE Result([w EXCEPT !.alloc.state = "reclaimed"], 0, NoError, w.heap.stream)

get_ref(w) ==
  IF ~Deref(w) THEN Fault(w) ELSE Result(w, 0, NoError, w.heap.stream)

get_mut(w) ==
  IF ~Deref(w) THEN Fault(w) ELSE Result(w, 0, NoError, state(w).stream)

\* Variant of bwrite that forwards the whole buffer whatever len says.
bwrite_ignores_len(w, buf, len, res) ==
  LET b1 == BIO_clear_retry_flags(w.bio)
      slice == buf
      st == state(w)
      s1 == StreamApply(st.stream, "write", slice, Len(slice), res)
      err == ErrorOf(st.stream, res)
  IN IF ~Deref(w) THEN Fault(w)
     ELSE IF res.ok
     THEN Result([w EXCEPT !.bio = b1, !.heap.stream = s1],
                 AsCInt(res.n), NoError, NoStream)
     ELSE Result([w EXCEPT !.bio = IF retriable_error(err)
                                   THEN BIO_set_retry_write(b1) ELSE b1,
                           !.heap = [stream |-> s1, error |-> err]],
                 -1, NoError, NoStream)

\* Variant of bwrite that empties the error slot when the write succeeds.
bwrite_clears_error_on_success(w, buf, len, res) ==
  LET b1 == BIO_clear_retry_flags(w.bio)
      slice == SubSeq(buf, 1, AsUsize(len))
      st == state(w)
      s1 == StreamApply(st.stream, "write", slice, Len(slice), res)
      err == ErrorOf(st.stream, res)
  IN IF ~Deref(w) THEN Fault(w)
     ELSE IF res.ok
     THEN Result([w EXCEPT !.bio = b1, !.heap = [stream |-> s1, error |-> NoError]],
                 AsCInt(res.n), NoError, NoStream)
     ELSE Result([w EXCEPT !.bio = IF retriable_error(err)
                                   THEN BIO_set_retry_write(b1) ELSE b1,
                           !.heap = [stream |-> s1, error |-> err]],
                 -1, NoError, NoStream)

bwrite(w, buf, len, res) ==
  LET b1 == BIO_clear_retry_flags(w.bio)
      slice == SubSeq(buf, 1, AsUsize(len))
      st == state(w)
      s1 == StreamApply(st.stream, "write", slice, Len(slice), res)
      err == ErrorOf(st.stream, res)
  IN IF ~Deref(w) THEN Fault(w)
     ELSE IF res.ok
     THEN Result([w EXCEPT !.bio = b1, !.heap.stream = s1],
                 AsCInt(res.n), NoError, NoStream)
     ELSE Result([w EXCEPT !.bio = IF retriable_error(err)
                                   THEN BIO_set_retry_write(b1) ELSE b1,
                           !.heap = [stream |-> s1, error |-> err]],
                 -1, NoError, NoStream)

\* Variant of bread that does not clear the retry flags first.
bread_keeps_flags(w, len, res) ==
  LET b1 == w.bio
      st == state(w)
      s1 == StreamApply(st.stream, "read", <<>>, AsUsize(len), res)
      err == ErrorOf(st.stream, res)
  IN IF ~Deref(w) THEN Fault(w)
     ELSE IF res.ok
     THEN Result([w EXCEPT !.bio = b1, !.heap.stream = s1],
                 AsCInt(res.n), NoError, NoStream)
     ELSE Result([w EXCEPT !.bio = IF retriable_error(err)
                                   THEN BIO_set_retry_read(b1) ELSE b1,
                           !.heap = [stream |-> s1, error |-> err]],
                 -1, NoError, NoStream)

bread(w, len, res) ==
  LET b1 == BIO_clear_retry_flags(w.bio)
      st == state(w)
      s1 == StreamApply(st.stream, "read", <<>>, AsUsize(len), res)
      err == ErrorOf(st.stream, res)
  IN IF ~Deref(w) THEN Fault(w)
     ELSE IF res.ok
     THEN Result([w EXCEPT !.bio = b1, !.heap.stream = s1],
                 AsCInt(res.n), NoError, NoStream)
     ELSE Result([w EXCEPT !.bio = IF retriable_error(err)
                                   THEN BIO_set_retry_read(b1) ELSE b1,
                           !.heap = [stream |-> s1, error |-> err]],
                 -1, NoError, NoStream)

\* libc strlen: the number of bytes before the first 0.
RECURSIVE strlen(_)
strlen(s) == IF Head(s) = 0 THEN 0 ELSE 1 + strlen(Tail(s))

\* Variant of bputs that counts the terminator into the length.
bputs_counts_terminator(w, s, res) == bwrite(w, s, AsCInt(strlen(s) + 1), res)

bputs(w, s, res) == bwrite(w, s, AsCInt(strlen(s)), res)

\* Variant of ctrl that flushes whatever the command is.
ctrl_ignores_cmd(w, cmd, res) ==
  LET st == state(w)
      s1 == StreamApply(st.stream, "flush", <<>>, 0, res)
      err == ErrorOf(st.stream, res)
  IN IF ~Deref(w) THEN Fault(w)
     ELSE IF res.ok
     THEN Result([w EXCEPT !.heap.stream = s1], 1, NoError, NoStream)
     ELSE Result([w EXCEPT !.heap = [stream |-> s1, error |-> err]],
                 0, NoError, NoStream)

ctrl(w, cmd, res) ==
  LET st == state(w)
      s1 == StreamApply(st.stream, "flush", <<>>, 0, res)
      err == ErrorOf(st.stream, res)
  IN IF cmd = BIO_CTRL_FLUSH
     THEN IF ~Deref(w) THEN Fault(w)
          ELSE IF res.ok
          THEN Result([w EXCEPT !.heap.stream = s1], 1, NoError, NoStream)
          ELSE Result([w EXCEPT !.heap = [stream |-> s1, error |-> err]],
                      0, NoError, NoStream)
     ELSE Result(w, 0, NoError, NoStream)

\* Variant of destroy without the null check on the object pointer.
destroy_ignores_null(w, isNull) ==
  IF w.bio.ptr # NULL
  THEN Result([w EXCEPT !.viol = @ \cup {"assert_failed"}], 0, NoError, NoStream)
  ELSE Result(w, 1, NoError, NoStream)

\* destroy(bio); isNull says the object pointer itself is null.
destroy(w, isNull) ==
  IF isNull THEN Result(w, 0, NoError, NoStream)
  ELSE IF w.bio.ptr # NULL
  THEN Result([w EXCEPT !.viol = @ \cup {"assert_failed"}], 0, NoError, NoStream)
  ELSE Result(w, 1, NoError, NoStream)

\* ---------------------------------------------------------------- inputs
\* Memory a caller of bwrite points at: one buffer per length, of alternating
\* bytes, so that a buffer may hold a 0 byte in its middle.
Buffers == {[i \in 1..k |-> i % 2] : k \in 0..MaxLen}

\* Memory holding a C string: a text of non-zero bytes, the terminator, and
\* possibly bytes after it.
CStrings ==
  {[i \in 1..k |-> 1] \o <<0>> : k \in 0..MaxLen}
    \cup {[i \in 1..k |-> 1] \o <<0, 1>> : k \in 0..MaxLen}

\* The bytes of a C string, terminator excluded.
Text(s) == SubSeq(s, 1, (CHOOSE i \in 1..Len(s) :
                           s[i] = 0 /\ \A j \in 1..(i - 1) : s[j] # 0) - 1)

Commands == {BIO_CTRL_FLUSH, OtherCmd}

\* ------------------------------------------------------- history records
Last(op, r) == [op |-> op, ret |-> r.ret, err |-> r.err, strm |-> r.strm]
NoLast == [op |-> "none", ret |-> 0, err |-> NoError, strm |-> NoStream]

\* One dispatched callback: the bytes requested, the command, what the stream
\* reported, what the callback returned, and the flags and error slot it left.
Call(op, req, cmd, res, r) ==
  [op |-> op, req |-> req, cmd |-> cmd, res |-> res, ret |-> r.ret,
   flags |-> r.w.bio.flags, slot |-> r.w.heap.error]

\* ------------------------------------------------------ descriptor lookup
MethodAt(p) ==
  IF p = DestroyMethodAddr THEN DESTROY_METHOD
  ELSE IF p = MethodAddr THEN method ELSE NoMethod

\* Reading a descriptor is defined only while it has not been freed.
TableViol ==
  IF bio.method = MethodAddr /\ alloc.method # "live"
  THEN {"method_use_after_free"} ELSE {}

\* The foreign library dispatches a callback through the object's descriptor.
Dispatch(slot) == alloc.bio = "live" /\ MethodAt(bio.method)[slot] # None

Apply(r) ==
  /\ bio' = r.w.bio
  /\ heap' = r.w.heap
  /\ alloc' = r.w.alloc
  /\ viol' = r.w.viol \cup TableViol

\* ---------------------------------------------------------------- actions
Init ==
  /\ pc = "start"
  /\ given \in Streams
  /\ bio = NoBio
  /\ method = NoMethod
  /\ heap = NoState
  /\ alloc = [bio |-> "none", state |-> "none", method |-> "none"]
  /\ taken = NoStream
  /\ created = NoBio
  /\ calls = <<>>
  /\ last = NoLast
  /\ mark = 0
  /\ viol = {}

new ==
  /\ pc = "start"
  /\ \E ok \in BOOLEAN, raw \in RawBios :
       LET m == ActiveMethod
           st == [stream |-> given, error |-> NoError]
           r == BIO_new(MethodAddr, m, raw, ok)
       IN IF r.null
          THEN /\ pc' = "failed"
               /\ alloc' = new_failed
               /\ last' = [NoLast EXCEPT !.op = "new", !.ret = 0]
               /\ UNCHANGED <<bio, method, heap, created>>
          ELSE /\ pc' = "attached"
               /\ method' = m
               /\ heap' = st
               /\ created' = r.bio
               /\ bio' = new_install(r.bio)
               /\ alloc' = [bio |-> "live", state |-> "live", method |-> "live"]
               /\ last' = [NoLast EXCEPT !.op = "new", !.ret = 1]
  /\ UNCHANGED <<given, taken, calls, mark, viol>>

CallBwrite ==
  /\ Dispatch("bwrite") /\ Len(calls) < MaxOps
  /\ \E buf \in Buffers, len \in 0..MaxLen :
       /\ len <= Len(buf)
       /\ \E res \in WriteResults(SubSeq(buf, 1, len)) :
            LET r == bwrite(World, buf, len, res)
            IN /\ Apply(r)
               /\ calls' = Append(calls, Call("bwrite", SubSeq(buf, 1, len), 0, res, r))
               /\ last' = Last("bwrite", r)
  /\ UNCHANGED <<pc, given, method, taken, created, mark>>

CallBread ==
  /\ Dispatch("bread") /\ Len(calls) < MaxOps
  /\ \E len \in 0..MaxLen, res \in ReadResults(MaxLen) :
       /\ res \in ReadResults(len)
       /\ LET r == bread(World, len, res)
          IN /\ Apply(r)
             /\ calls' = Append(calls, Call("bread", [i \in 1..len |-> 0], 0, res, r))
             /\ last' = Last("bread", r)
  /\ UNCHANGED <<pc, given, method, taken, created, mark>>

CallBputs ==
  /\ Dispatch("bputs") /\ Len(calls) < MaxOps
  /\ \E s \in CStrings :
       \E res \in WriteResults(Text(s)) :
         LET r == bputs(World, s, res)
         IN /\ Apply(r)
            /\ calls' = Append(calls, Call("bputs", Text(s), 0, res, r))
            /\ last' = Last("bputs", r)
  /\ UNCHANGED <<pc, given, method, taken, created, mark>>

CallCtrl ==
  /\ Dispatch("ctrl") /\ Len(calls) < MaxOps
  /\ \E cmd \in Commands, res \in FlushResults :
       /\ cmd # BIO_CTRL_FLUSH => res = Ok(0)
       /\ LET r == ctrl(World, cmd, res)
          IN /\ Apply(r)
             /\ calls' = Append(calls, Call("ctrl", <<>>, cmd, res, r))
             /\ last' = Last("ctrl", r)
  /\ UNCHANGED <<pc, given, method, taken, created, mark>>

\* The caller's precondition for the unsafe functions: the object is attached.
Attached == alloc.bio = "live" /\ bio.ptr # NULL

TakeError ==
  /\ Attached
  /\ LET r == take_error(World)
     IN /\ Apply(r)
        /\ last' = Last("take_error", r)
  /\ mark' = Len(calls)
  /\ UNCHANGED <<pc, given, method, taken, created, calls>>

GetRef ==
  /\ Attached
  /\ LET r == get_ref(World)
     IN /\ Apply(r)
        /\ last' = Last("get_ref", r)
  /\ UNCHANGED <<pc, given, method, taken, created, calls, mark>>

GetMut ==
  /\ Attached
  /\ LET r == get_mut(World)
     IN /\ Apply(r)
        /\ last' = Last("get_mut", r)
  /\ UNCHANGED <<pc, given, method, taken, created, calls, mark>>

TakeStream ==
  /\ Attached
  /\ LET r == take_stream(World)
     IN /\ Apply(r)
        /\ taken' = r.strm
        /\ last' = Last("take_stream", r)
  /\ pc' = "detached"
  /\ mark' = 0
  /\ UNCHANGED <<given, method, created, calls>>

\* The caller drops the Box<BIO_METHOD> that new returned.
FreeMethod ==
  /\ pc = "detached"
  /\ alloc.method = "live"
  /\ alloc' = [alloc EXCEPT !.method = "freed"]
  /\ last' = [NoLast EXCEPT !.op = "free_method"]
  /\ UNCHANGED <<pc, given, bio, method, heap, taken, created, calls, mark, viol>>

\* The foreign library invokes the destroy slot of the object's descriptor.
CallDestroy ==
  /\ Dispatch("destroy")
  /\ \E isNull \in BOOLEAN :
       LET r == destroy(World, isNull)
       IN /\ Apply(r)
          /\ last' = Last(IF isNull THEN "destroy_null" ELSE "destroy", r)
  /\ UNCHANGED <<pc, given, method, taken, created, calls, mark>>

\* The foreign library's teardown of the channel object: BIO_free runs the
\* destroy slot when it is populated and releases the object.
BioFree ==
  /\ alloc.bio = "live"
  /\ LET m == MethodAt(bio.method)
         r == IF m.destroy # None THEN destroy(World, FALSE)
              ELSE Result(World, 1, NoError, NoStream)
     IN /\ bio' = r.w.bio
        /\ heap' = r.w.heap
        /\ alloc' = [r.w.alloc EXCEPT !.bio = "freed"]
        /\ viol' = r.w.viol \cup TableViol
        /\ last' = Last(IF m.destroy # None THEN "free_destroy" ELSE "free", r)
  /\ UNCHANGED <<pc, given, method, taken, created, calls, mark>>

Next ==
  \/ new
  \/ CallBwrite
  \/ CallBread
  \/ CallBputs
  \/ CallCtrl
  \/ TakeError
  \/ GetRef
  \/ GetMut
  \/ TakeStream
  \/ FreeMethod
  \/ CallDestroy
  \/ BioFree

Spec == Init /\ [][Next]_vars

\* ------------------------------------------------------ claim vocabulary
IoSlots == {"bwrite", "bread", "bputs", "ctrl"}
Failed(e) == ~e.res.ok

\* The stream as it is now: inside the StreamState, or with the caller.
TheStream == IF pc = "detached" THEN taken ELSE heap.stream

\* The stream operation a dispatched callback is expected to forward, if any.
Forwarded(e) ==
  IF e.op \in {"bwrite", "bputs"}
  THEN <<StreamOp("write", e.req, Len(e.req), e.res)>>
  ELSE IF e.op = "bread"
  THEN <<StreamOp("read", <<>>, Len(e.req), e.res)>>
  ELSE IF e.op = "ctrl" /\ e.cmd = BIO_CTRL_FLUSH
  THEN <<StreamOp("flush", <<>>, 0, e.res)>>
  ELSE <<>>

RECURSIVE ForwardedAll(_)
ForwardedAll(cs) ==
  IF cs = <<>> THEN <<>>
  ELSE ForwardedAll(SubSeq(cs, 1, Len(cs) - 1)) \o Forwarded(cs[Len(cs)])

\* A step that dispatches one more callback, and that callback's record.
CallStep(op) == Len(calls') = Len(calls) + 1 /\ calls'[Len(calls')].op = op
NewCall == calls'[Len(calls')]

\* ----------------------------------------------------------------- claims
PairingOf(b) ==
  /\ b.ptr # NULL => b.method = MethodAddr
  /\ b.method = DestroyMethodAddr => b.ptr = NULL

\* C1: in every reachable state, a non-null opaque pointer implies that the
\* descriptor pointer is the active descriptor, and the inert descriptor
\* implies a null opaque pointer; this holds of the object as create left it
\* and as every later operation leaves it.
C1_Pairing == PairingOf(bio) /\ PairingOf(created)

C1_Witness ==
  /\ pc = "detached" /\ bio.method = DestroyMethodAddr /\ bio.ptr = NULL
  /\ created.method = MethodAddr /\ Len(calls) > 0

\* C2: when the caller frees the active descriptor only after take_stream,
\* the StreamState is reclaimed at most once and only by take_stream, nothing
\* dereferences a reclaimed StreamState, and teardown never reads a freed
\* descriptor: a detached object points at the inert descriptor.
C2_NoUseAfterFree ==
  /\ viol \cap {"use_after_free", "double_free", "method_use_after_free",
                "null_deref"} = {}
  /\ alloc.state = "reclaimed" <=> pc = "detached"
  /\ alloc.method = "freed" /\ alloc.bio # "none" => bio.method = DestroyMethodAddr

C2_Witness ==
  /\ pc = "detached" /\ Len(calls) > 0
  /\ alloc.method = "freed" /\ alloc.bio = "freed"
  /\ last.op = "free_destroy"

\* C3: after take_stream the opaque pointer is null, the descriptor pointer is
\* the inert descriptor and init is 0; a destroy invoked afterwards returns 1,
\* its assertion holds, and it changes neither the allocation status nor the
\* contents of the StreamState and of the active descriptor.
C3_Detached ==
  /\ [](pc = "detached" =>
          /\ bio.ptr = NULL /\ bio.method = DestroyMethodAddr /\ bio.init = 0
          /\ last.op \in {"destroy", "free_destroy"} => last.ret = 1
          /\ "assert_failed" \notin viol)
  /\ [][pc = "detached" /\ last'.op \in {"destroy", "free_destroy"} =>
          /\ alloc'.state = alloc.state /\ alloc'.method = alloc.method
          /\ heap' = heap /\ method' = method /\ viol' = viol]_vars

C3_Witness ==
  /\ pc = "detached" /\ last.op = "destroy" /\ last.ret = 1
  /\ alloc.method = "freed" /\ Len(calls) > 0

\* C4: the stream take_stream returns is the stream given to new, carrying
\* exactly the stream operations the dispatched callbacks forwarded, in
\* order; with no callback in between it is the given stream unchanged.
C4_RoundTrip ==
  pc = "detached" =>
    taken = [id |-> given.id, log |-> given.log \o ForwardedAll(calls)]

C4_Witness ==
  /\ pc = "detached" /\ last.op = "take_stream"
  /\ Len(calls) = 2 /\ Len(taken.log) = 2 /\ taken.id = given.id
  /\ Failed(calls[1]) /\ ~Failed(calls[2])

\* C5: a bwrite or bread whose stream operation fails returns -1 and stores
\* the error; for WouldBlock and NotConnected the write-retry (bwrite) or
\* read-retry (bread) flag is set on return, for every other kind no retry
\* flag is set on return; the take_error that follows returns that error.
C5_Classified(e) ==
  /\ e.ret = -1
  /\ e.slot.kind = e.res.kind
  /\ e.res.kind \in {"WouldBlock", "NotConnected"} =>
       (IF e.op = "bwrite" THEN "write" ELSE "read") \in e.flags
  /\ e.res.kind \notin {"WouldBlock", "NotConnected"} =>
       e.flags \cap RetryFlags = {}

C5_FailureClassification ==
  /\ [](\A i \in 1..Len(calls) :
          calls[i].op \in {"bwrite", "bread"} /\ Failed(calls[i])
            => C5_Classified(calls[i]))
  /\ [][/\ last.op \in {"bwrite", "bread"} /\ last.ret = -1
        /\ last'.op = "take_error"
        => last'.err = calls[Len(calls)].slot /\ last'.err # NoError]_vars

C5_Witness ==
  /\ Len(calls) = 2
  /\ calls[1].op = "bwrite" /\ calls[1].res.kind = "BrokenPipe"
  /\ calls[2].op = "bread" /\ calls[2].res.kind = "NotConnected"
  /\ last.op = "take_error" /\ last.err.kind = "NotConnected"

\* C6: when every callback dispatched so far is a bwrite that succeeded, the
\* stream has received exactly the requested buffers, one write each, in call
\* order, and every call returned the count the stream reported.
C6_OrderedWrites ==
  (\A i \in 1..Len(calls) : calls[i].op = "bwrite" /\ ~Failed(calls[i])) =>
    /\ Len(TheStream.log) = Len(calls)
    /\ \A i \in 1..Len(calls) :
         /\ TheStream.log[i] =
              StreamOp("write", calls[i].req, Len(calls[i].req), calls[i].res)
         /\ calls[i].ret = calls[i].res.n

C6_Witness ==
  /\ Len(calls) = 2
  /\ \A i \in 1..2 : calls[i].op = "bwrite" /\ ~Failed(calls[i])
  /\ calls[1].req # calls[2].req
  /\ calls[1].ret = 1 /\ calls[2].ret = 0
  /\ Len(TheStream.log) = 2

\* C7: take_error returns the content of the error slot and leaves the slot
\* empty; a take_error that immediately follows a take_error returns empty.
C7_TakeErrorClears ==
  [][last'.op = "take_error" =>
       /\ last'.err = heap.error
       /\ heap'.error = NoError
       /\ last.op = "take_error" => last'.err = NoError]_vars

C7_Witness ==
  /\ last.op = "take_error" /\ last.err = NoError
  /\ Len(calls) > 0 /\ Failed(calls[Len(calls)])
  /\ pc = "attached" /\ heap.error = NoError

\* C8: ctrl with the flush command forwards one flush to the stream and
\* returns 1 exactly when it succeeds, storing the error and returning 0 when
\* it fails; with any other command it returns 0, forwards nothing to the
\* stream and leaves the error slot as it was.
C8_Control ==
  [][CallStep("ctrl") =>
       IF NewCall.cmd = BIO_CTRL_FLUSH
       THEN /\ heap'.stream = StreamApply(heap.stream, "flush", <<>>, 0, NewCall.res)
            /\ NewCall.ret = 1 <=> NewCall.res.ok
            /\ NewCall.res.ok => heap'.error = heap.error
            /\ ~NewCall.res.ok =>
                 /\ NewCall.ret = 0
                 /\ heap'.error = ErrorOf(heap.stream, NewCall.res)
       ELSE /\ NewCall.ret = 0
            /\ heap' = heap]_vars

C8_Witness ==
  /\ Len(calls) = 2
  /\ calls[1].op = "ctrl" /\ calls[1].cmd = BIO_CTRL_FLUSH /\ Failed(calls[1])
  /\ calls[1].ret = 0
  /\ calls[2].op = "ctrl" /\ calls[2].cmd # BIO_CTRL_FLUSH /\ calls[2].ret = 0
  /\ pc = "attached" /\ heap.error.kind = calls[1].res.kind
  /\ Len(heap.stream.log) = 1

\* C9: bputs on a C string leaves the same object, StreamState and violation
\* record, and returns the same value, as bwrite called in the same state
\* with the string's bytes before the terminator and their count.
C9_PutsIsWrite ==
  [][CallStep("bputs") =>
       LET r == bwrite(World, NewCall.req, Len(NewCall.req), NewCall.res)
       IN /\ bio' = r.w.bio
          /\ heap' = r.w.heap
          /\ alloc' = r.w.alloc
          /\ viol' = r.w.viol
          /\ NewCall.ret = r.ret]_vars

C9_Witness ==
  /\ Len(calls) = 2
  /\ calls[1].op = "bputs" /\ Failed(calls[1]) /\ Len(calls[1].req) = MaxLen
  /\ calls[2].op = "bputs" /\ calls[2].ret = 1 /\ calls[2].req = <<1>>

\* C10: once take_stream has run, the object's descriptor offers no write,
\* read, puts or control slot, so no such callback is dispatched on the
\* object again; destroy is the only slot left.
C10_NoCallbackAfterDetach ==
  pc = "detached" =>
    /\ last.op \notin IoSlots
    /\ \A slot \in IoSlots : MethodAt(bio.method)[slot] = None
    /\ MethodAt(bio.method).destroy # None
    /\ MethodAt(bio.method).create = None

C10_Witness ==
  /\ pc = "detached" /\ alloc.bio = "live" /\ last.op = "destroy"
  /\ Len(calls) >= 1 /\ Len(calls) < MaxOps

\* C11: when BIO_new fails, new returns an error, no channel object exists,
\* the StreamState has been dropped and was never installed in an opaque
\* pointer; when BIO_new succeeds, new returns the object with the
\* StreamState holding the given stream installed, an empty error slot and
\* init = 1.
C11_Construction ==
  /\ pc = "failed" =>
       /\ last.op = "new" /\ last.ret = 0
       /\ alloc.bio = "none" /\ alloc.state = "dropped"
       /\ bio.ptr = NULL /\ created.ptr = NULL
  /\ last.op = "new" /\ last.ret = 1 =>
       /\ pc = "attached" /\ alloc.bio = "live" /\ alloc.state = "live"
       /\ bio.ptr = StateAddr /\ bio.init = 1
       /\ heap = [stream |-> given, error |-> NoError]
  /\ last.op = "new" => (last.ret = 0 <=> pc = "failed")

C11_Witness ==
  /\ pc = "failed" /\ last.op = "new" /\ last.ret = 0
  /\ alloc.state = "dropped" /\ alloc.bio = "none"

\* C12: get_ref, get_mut and take_error leave the object's opaque pointer,
\* descriptor pointer, init flag and retry flags as they were, free nothing
\* and forward no operation to the stream; get_ref and get_mut also leave the
\* error slot as it was and return the wrapped stream; take_error leaves the
\* stream as it was.
C12_NonDetaching ==
  [][last'.op \in {"get_ref", "get_mut", "take_error"} =>
       /\ bio' = bio
       /\ alloc' = alloc
       /\ method' = method
       /\ heap'.stream = heap.stream
       /\ pc' = pc /\ taken' = taken
       /\ last'.op \in {"get_ref", "get_mut"} =>
            heap'.error = heap.error /\ last'.strm = heap.stream]_vars

C12_Witness ==
  /\ pc = "attached" /\ alloc.state = "live" /\ last.op = "get_mut"
  /\ heap.error # NoError /\ "write" \in bio.flags
  /\ last.strm = heap.stream /\ Len(heap.stream.log) = 2

\* The stream operation of a dispatched callback failed.
StreamFailed(e) ==
  /\ Failed(e)
  /\ e.op \in {"bwrite", "bputs", "bread"} \/ (e.op = "ctrl" /\ e.cmd = BIO_CTRL_FLUSH)

\* C13: every retriable stream error (WouldBlock, NotConnected) raised by a
\* forwarded write, read or flush leaves a retry flag set on the object when
\* the callback returns, and every fatal stream error leaves no retry flag
\* set on the object when the callback returns.
C13_RetrySurfaced ==
  \A i \in 1..Len(calls) :
    StreamFailed(calls[i]) =>
      IF calls[i].res.kind \in {"WouldBlock", "NotConnected"}
      THEN calls[i].flags \cap {"read", "write"} # {}
      ELSE calls[i].flags \cap RetryFlags = {}

\* The error the stream reported to the i-th dispatched callback.
ExpectedError(i) ==
  [kind |-> calls[i].res.kind,
   at |-> Len(given.log) + Len(ForwardedAll(SubSeq(calls, 1, i)))]

\* The error of the most recent callback that failed since the last
\* take_error (or since construction), empty when none failed.
Pending ==
  LET F == {i \in (mark + 1)..Len(calls) : StreamFailed(calls[i])}
  IN IF F = {} THEN NoError
     ELSE ExpectedError(CHOOSE i \in F : \A j \in F : j <= i)

\* C14: a callback whose stream operation succeeds (or that forwards none)
\* leaves the error slot as it was, one whose stream operation fails replaces
\* the slot with its own error; so the slot holds, and take_error returns, the
\* error of the most recent callback that failed since the previous
\* take_error, and empty exactly when none failed since.
C14_ErrorSlot ==
  /\ [](pc = "attached" /\ alloc.state = "live" => heap.error = Pending)
  /\ [][last'.op = "take_error" =>
          /\ last'.err = Pending
          /\ last'.err = NoError <=>
               \A i \in (mark + 1)..Len(calls) : ~StreamFailed(calls[i])]_vars
  /\ [][Len(calls') = Len(calls) + 1 =>
          IF StreamFailed(NewCall)
          THEN heap'.error = ErrorOf(heap.stream, NewCall.res)
          ELSE heap'.error = heap.error]_vars

C14_Witness ==
  /\ Len(calls) = 2 /\ mark = 2
  /\ calls[1].res.kind = "WouldBlock" /\ calls[2].res.kind = "BrokenPipe"
  /\ last.op = "take_error" /\ last.err = [kind |-> "BrokenPipe", at |-> 2]
  /\ heap.error = NoError

\* C15: whatever flags were set before the call, a bwrite or bread that
\* succeeds returns with no retry flag set, a bwrite that fails retriably
\* returns with the write-retry flag and not the read-retry flag set, and a
\* bread that fails retriably returns with the read-retry flag and not the
\* write-retry flag set.
C15_FlagsCleared ==
  \A i \in 1..Len(calls) :
    LET e == calls[i]
        retriable == e.res.kind \in {"WouldBlock", "NotConnected"}
    IN /\ e.op \in {"bwrite", "bread"} /\ ~Failed(e) => e.flags \cap RetryFlags = {}
       /\ e.op = "bwrite" /\ retriable => "write" \in e.flags /\ "read" \notin e.flags
       /\ e.op = "bread" /\ retriable => "read" \in e.flags /\ "write" \notin e.flags

C15_Witness ==
  /\ Len(calls) = 2
  /\ calls[1].op = "bwrite" /\ calls[1].res.kind = "WouldBlock"
  /\ "write" \in calls[1].flags
  /\ calls[2].op = "bread" /\ calls[2].res.kind = "NotConnected"
  /\ calls[2].flags = {"read", "should_retry"}
  /\ bio.flags = calls[2].flags

\* C16: destroy returns 0 for a null object pointer; otherwise its assertion
\* that the opaque pointer is null holds in every reachable state and it
\* returns 1; it changes no field of the object, nothing of the StreamState
\* and neither descriptor, and frees nothing (the teardown that invoked it
\* releases the object itself).
C16_InertDestroy ==
  /\ [](/\ last.op = "destroy_null" => last.ret = 0
        /\ last.op \in {"destroy", "free_destroy"} =>
             last.ret = 1 /\ bio.ptr = NULL /\ pc = "detached"
        /\ "assert_failed" \notin viol)
  /\ [][last'.op \in {"destroy", "destroy_null", "free_destroy"} =>
          /\ bio' = bio /\ heap' = heap /\ method' = method
          /\ viol' = viol /\ taken' = taken
          /\ alloc'.state = alloc.state /\ alloc'.method = alloc.method
          /\ last'.op # "free_destroy" => alloc'.bio = alloc.bio]_vars

C16_Witness ==
  /\ last.op = "destroy_null" /\ last.ret = 0
  /\ pc = "detached" /\ alloc.bio = "live" /\ alloc.method = "live"
  /\ Len(calls) = MaxOps

\* C17: whatever the fresh object holds, create leaves its opaque pointer
\* null, its numeric field 0, its flags 0 and its init flag 0, changes nothing
\* else and returns 1; it has run before new installs the StreamState, so
\* right after a successful new the object is as create left it except for
\* the installed pointer and init = 1.
C17_Create ==
  /\ \A raw \in RawBios :
       /\ create(raw).ret = 1
       /\ create(raw).bio =
            [ptr |-> NULL, method |-> raw.method, init |-> 0, num |-> 0, flags |-> {}]
  /\ alloc.bio # "none" =>
       created = [ptr |-> NULL, method |-> MethodAddr, init |-> 0, num |-> 0,
                  flags |-> {}]
  /\ last.op = "new" /\ last.ret = 1 =>
       bio = [created EXCEPT !.ptr = StateAddr, !.init = 1]

C17_Witness ==
  /\ last.op = "new" /\ last.ret = 1 /\ pc = "attached"
  /\ created.ptr = NULL /\ created.init = 0
  /\ bio.ptr = StateAddr /\ bio.init = 1 /\ bio.flags = {} /\ bio.num = 0

Slots == {"bwrite", "bread", "bputs", "bgets", "ctrl", "create", "destroy",
          "callback_ctrl"}
Populated(m) == {s \in Slots : m[s] # None}

\* C18: from a successful new on, the active descriptor has exactly its
\* write, read, puts, control and create slots populated (destroy empty) and
\* never changes; the inert descriptor has exactly its destroy slot
\* populated; so the teardown of a still attached object dispatches no
\* destroy callback and leaves its StreamState allocated, never reclaimed.
C18_DescriptorShape ==
  /\ pc \in {"attached", "detached"} =>
       /\ Populated(method) = {"bwrite", "bread", "bputs", "ctrl", "create"}
       /\ method.bwrite = "bwrite" /\ method.bread = "bread"
       /\ method.bputs = "bputs" /\ method.ctrl = "ctrl"
       /\ method.create = "create"
  /\ Populated(DESTROY_METHOD) = {"destroy"}
  /\ DESTROY_METHOD.destroy = "destroy"
  /\ pc = "attached" /\ alloc.bio = "freed" =>
       /\ last.op = "free"
       /\ alloc.state = "live"
       /\ "assert_failed" \notin viol /\ "double_free" \notin viol

C18_Witness ==
  /\ pc = "attached" /\ alloc.bio = "freed" /\ last.op = "free"
  /\ alloc.state = "live" /\ Len(calls) > 0 /\ heap.error # NoError

\* C19: between operations the init flag is 1 exactly when the opaque
\* pointer is non-null; it is 1 from a successful new on, through every
\* callback, take_error, get_ref and get_mut, and it is 0 as create leaves
\* the object and after take_stream.
C19_InitTracksAttachment ==
  /\ bio.init = 1 <=> bio.ptr # NULL
  /\ bio.init \in {0, 1}
  /\ created.init = 0 /\ created.ptr = NULL
  /\ pc = "attached" => bio.init = 1
  /\ pc = "detached" => bio.init = 0

C19_Witness ==
  /\ pc = "attached" /\ alloc.bio = "live" /\ bio.init = 1 /\ bio.ptr = StateAddr
  /\ last.op = "take_error" /\ last.err # NoError
  /\ Len(calls) = 2 /\ calls[1].op = "bread" /\ calls[2].op = "ctrl"

\* Counts at both ends of the range 0 .. 2^31 - 1.
EdgeCounts == {0, 1, MaxLen, CIntMax - 1, CIntMax}

\* C20: for a length in 0 .. 2^31 - 1 and a stream that reports a count n
\* with 0 <= n <= len, bwrite and bread return exactly n, at the ends of the
\* range too, so they return -1 exactly when the stream operation failed.
C20_ReturnSentinel ==
  /\ \A i \in 1..Len(calls) :
       calls[i].op \in {"bwrite", "bread"} =>
         /\ ~Failed(calls[i]) =>
              calls[i].ret = calls[i].res.n /\ calls[i].ret >= 0
         /\ calls[i].ret = -1 <=> Failed(calls[i])
  /\ \A n \in EdgeCounts : AsCInt(n) = n /\ AsCInt(n) # -1
  /\ pc = "attached" /\ alloc.bio = "live" =>
       \A n \in EdgeCounts : bread(World, CIntMax, Ok(n)).ret = n

C20_Witness ==
  /\ Len(calls) = 2 /\ pc = "attached" /\ alloc.bio = "live"
  /\ calls[1].op = "bwrite" /\ ~Failed(calls[1])
  /\ calls[1].ret = Len(calls[1].req) /\ calls[1].ret > 0
  /\ calls[2].op = "bread" /\ Failed(calls[2]) /\ calls[2].ret = -1
====
